---------------------------- MODULE Spec2Model ----------------------------
(***************************************************************************)
(* A model of invenio_collections/models.py: the collection hierarchy      *)
(* (Collection, CollectionCollection), name validation, box labels         *)
(* (Collectionboxname) and facet configuration (FacetCollection).          *)
(***************************************************************************)
EXTENDS Integers, Sequences, FiniteSets, TLC

(***************************************************************************)
(* Bounds of the model.                                                    *)
(***************************************************************************)
\* number of collection ids: ids are 1..NumColl, id 1 is the root
NumColl == 3
\* largest number of rows of collection_collection an initial store holds
MaxEdges == 3
\* depth of the interpreter's call stack at which a further call raises
\* RecursionError (sys.getrecursionlimit())
RecursionLimit == 5
\* number of cached-property reads made on one set of instances
MaxCalls == 2
\* largest nbrecs of a collection
MaxRecs == 1
\* largest id given to an instance
MaxId == 2
\* longest collection name
MaxNameLen == 1
\* largest number of rows of collectionboxname
MaxBoxes == 2
\* number of sessions that add a facet concurrently
NumWriters == 2
\* largest position (order) of a facet
MaxOrder == 1
\* largest number of rows of collection_collection while rows are inserted
MaxRows == 2
\* longest query of a collection
MaxQueryLen == 2

VARIABLES
    edges,      \* rows of collection_collection: [id_dad, id_son, type, score]
    nbrecs,     \* Collection.nbrecs, by collection id
    cache,      \* cached_property values stored in the instances' __dict__
    stack,      \* call stack of the property read or method call in progress
    result,     \* outcome of the last completed call
    ncalls,     \* number of top-level reads started so far
    cid,        \* Collection.id of each Collection instance
    cname,      \* Collection.name of each Collection instance
    dbquery,    \* Collection.dbquery of each Collection instance
    boxes,      \* rows of collectionboxname: [id_collection, ln, type, value]
    facets,     \* rows of facet_collection
    writers     \* the sessions adding a facet: position and local values

vars == <<edges, nbrecs, cache, stack, result, ncalls,
          cid, cname, dbquery, boxes, facets, writers>>

\* the state of the hierarchy, and what an operation on it leaves alone
hierVars == <<edges, nbrecs, cache, stack, ncalls>>
notHier == <<cid, cname, dbquery, boxes, facets, writers>>

(***************************************************************************)
(* Values.                                                                 *)
(***************************************************************************)
Collections == 1 .. NumColl

\* Python's None where a collection id is expected (ids are unsigned and
\* start at 1)
None == 0

EdgeTypes == {"r", "v"}

\* the Collection instances whose attributes are written: a write touches one
\* instance, the other shows what a write leaves alone
Objs == {"first", "second"}

\* the ids an instance is given
Ids == 1 .. MaxId

\* the characters of a name: two letters and the slash
NameChars == {"S", "a", "/"}

\* the non-empty strings given as a name, as sequences of characters
Names == UNION {[1 .. n -> NameChars] : n \in 1 .. MaxNameLen}

\* cfg['CFG_SITE_NAME']
CFG_SITE_NAME == <<"S">>

\* the name attribute of an instance before any name is set
NoName == <<"None">>

\* the characters of a query: a digit, the colon and an upper-case letter
QueryChars == {"1", ":", "A"}

\* the strings given as a query, the empty one included
Queries == UNION {[1 .. n -> QueryChars] : n \in 0 .. MaxQueryLen}

\* the dbquery attribute of an instance whose query is None (NULL)
NoQuery == <<"None">>

\* the three cached properties of Collection
Traversals == {"ancestors", "ancestors_ids", "descendants_ids"}

\* no call has completed yet / a call is in progress
NoResult == [fn |-> "none", self |-> None, arg |-> <<>>,
             outcome |-> "none", value |-> <<>>]

\* a row of collection_collection
CollectionCollection(dad, son, type, score) ==
    [id_dad |-> dad, id_son |-> son, type |-> type, score |-> score]

\* the (id_dad, id_son) primary key of a row
EdgeKey(row) == <<row.id_dad, row.id_son>>

\* Collection.dads (backref of CollectionCollection.son): the dads of the
\* rows whose id_son is the collection, of any type
Dads(self) == {row.id_dad : row \in {r \in edges : r.id_son = self}}

\* Collection.sons (backref of CollectionCollection.dad): the sons of the
\* rows whose id_dad is the collection, of any type
Sons(self) == {row.id_son : row \in {r \in edges : r.id_dad = self}}

\* the relation a cached property iterates over
Neighbours(fn, self) ==
    IF fn = "descendants_ids" THEN Sons(self) ELSE Dads(self)

\* an instance's __dict__ holds no value for the property: a cached value
\* always contains the instance itself, so the empty set stands for
\* "not computed yet"
NotCached == {}

EmptyCache == [fn \in Traversals |-> [c \in Collections |-> NotCached]]

\* the state of the other models while they are not operated on
HierIdle ==
    /\ edges = {}
    /\ nbrecs = [c \in Collections |-> 0]
    /\ cache = EmptyCache
    /\ stack = <<>>
    /\ ncalls = 0

NameIdle ==
    /\ cid = [o \in Objs |-> None]
    /\ cname = [o \in Objs |-> NoName]
    /\ dbquery = [o \in Objs |-> NoQuery]

BoxIdle == boxes = {}

FacetIdle ==
    /\ facets = {}
    /\ writers = [w \in 1 .. NumWriters |-> [pc |-> "start"]]

\* a call of the getter of a cached property: "output = set([self.id])"
Frame(fn, self) ==
    [fn |-> fn, self |-> self,
     todo |-> Neighbours(fn, self), output |-> {self}]

Top == stack[Len(stack)]

Pop == SubSeq(stack, 1, Len(stack) - 1)

\* ancestors_ids and descendants_ids test "self.id in ..." and execute a
\* bare raise; ancestors has no such test
RaisesOnOrigin(fn, self, returned) ==
    fn # "ancestors" /\ self \in returned

\* a slip: the returned set replaces output instead of being added to it
UnionInto_Overwrite(output, returned) == returned

\* "output |= ..."
UnionInto(output, returned) == output \cup returned

\* the caller's frame after the property of a neighbour returned a value
AfterReturn(frame, returned) ==
    [frame EXCEPT !.output = UnionInto(frame.output, returned)]

ReplaceTop(s, frame) == [s EXCEPT ![Len(s)] = frame]

(***************************************************************************)
(* Reading a cached property: ancestors, ancestors_ids, descendants_ids.   *)
(***************************************************************************)

\* a read of collection.<fn> from outside: werkzeug's cached_property
\* returns the stored value when there is one and runs the getter otherwise
StartTraversal(fn, self) ==
    /\ stack = <<>>
    /\ ncalls < MaxCalls
    /\ ncalls' = ncalls + 1
    /\ IF cache[fn][self] # NotCached
          THEN /\ stack' = stack
               /\ result' = [fn |-> fn, self |-> self, arg |-> <<>>,
                             outcome |-> "ok", value |-> cache[fn][self]]
          ELSE /\ stack' = <<Frame(fn, self)>>
               /\ result' = NoResult
    /\ UNCHANGED <<edges, nbrecs, cache>>
    /\ UNCHANGED notHier

\* the loop body reads the property of a neighbour that has no cached
\* value yet: the getter is called recursively
CallProperty(d) ==
    /\ stack # <<>>
    /\ Top.fn \in Traversals
    /\ d \in Top.todo
    /\ cache[Top.fn][d] = NotCached
    /\ Len(stack) < RecursionLimit
    /\ stack' = Append(ReplaceTop(stack, [Top EXCEPT !.todo = @ \ {d}]),
                       Frame(Top.fn, d))
    /\ UNCHANGED <<edges, nbrecs, cache, result, ncalls>>
    /\ UNCHANGED notHier

\* the recursive call does not fit on the interpreter's stack: RecursionError
\* propagates through every frame, none of which stores a value
RecursionOverflow(d) ==
    /\ stack # <<>>
    /\ Top.fn \in Traversals
    /\ d \in Top.todo
    /\ cache[Top.fn][d] = NotCached
    /\ Len(stack) >= RecursionLimit
    /\ stack' = <<>>
    /\ result' = [fn |-> Top.fn, self |-> stack[1].self, arg |-> <<>>,
                  outcome |-> "RecursionError", value |-> <<>>]
    /\ UNCHANGED <<edges, nbrecs, cache, ncalls>>
    /\ UNCHANGED notHier

\* the loop body reads the property of a neighbour whose value is cached
CachedProperty(d) ==
    /\ stack # <<>>
    /\ Top.fn \in Traversals
    /\ d \in Top.todo
    /\ cache[Top.fn][d] # NotCached
    /\ IF RaisesOnOrigin(Top.fn, Top.self, cache[Top.fn][d])
          THEN /\ stack' = <<>>
               /\ result' = [fn |-> Top.fn, self |-> stack[1].self,
                             arg |-> <<>>, outcome |-> "raise",
                             value |-> <<>>]
          ELSE /\ stack' = ReplaceTop(stack,
                              AfterReturn([Top EXCEPT !.todo = @ \ {d}],
                                          cache[Top.fn][d]))
               /\ result' = result
    /\ UNCHANGED <<edges, nbrecs, cache, ncalls>>
    /\ UNCHANGED notHier

\* the loop is over: the getter returns output, cached_property stores it in
\* the instance, and the caller (if any) goes on with the returned value
ReturnProperty ==
    /\ stack # <<>>
    /\ Top.fn \in Traversals
    /\ Top.todo = {}
    /\ cache' = [cache EXCEPT ![Top.fn][Top.self] = Top.output]
    /\ IF Len(stack) = 1
          THEN /\ stack' = <<>>
               /\ result' = [fn |-> Top.fn, self |-> Top.self, arg |-> <<>>,
                             outcome |-> "ok", value |-> Top.output]
          ELSE LET caller == stack[Len(stack) - 1] IN
               IF RaisesOnOrigin(caller.fn, caller.self, Top.output)
                  THEN /\ stack' = <<>>
                       /\ result' = [fn |-> Top.fn, self |-> stack[1].self,
                                     arg |-> <<>>, outcome |-> "raise",
                                     value |-> <<>>]
                  ELSE /\ stack' = ReplaceTop(Pop,
                                      AfterReturn(caller, Top.output))
                       /\ result' = result
    /\ UNCHANGED <<edges, nbrecs, ncalls>>
    /\ UNCHANGED notHier

(***************************************************************************)
(* Stores the hierarchy is read from.                                      *)
(***************************************************************************)
\* the (dad, son) pairs of two different collections
Pairs == {p \in Collections \X Collections : p[1] # p[2]}

\* the stores with at most MaxEdges rows of one type, one row per
\* (id_dad, id_son)
EdgeStoresOfType(ty) ==
    {{CollectionCollection(p[1], p[2], ty, 0) : p \in P} :
        P \in {Q \in SUBSET Pairs : Cardinality(Q) <= MaxEdges}}

\* stores of regular rows and stores of virtual rows
EdgeStores == UNION {EdgeStoresOfType(ty) : ty \in EdgeTypes}

InitTraversal ==
    /\ edges \in EdgeStores
    /\ nbrecs = [c \in Collections |-> 0]
    /\ cache = EmptyCache
    /\ stack = <<>>
    /\ result = NoResult
    /\ ncalls = 0
    /\ NameIdle /\ BoxIdle /\ FacetIdle

NextTraversal ==
    \/ \E fn \in Traversals, c \in Collections : StartTraversal(fn, c)
    \/ \E d \in Collections : CallProperty(d)
    \/ \E d \in Collections : RecursionOverflow(d)
    \/ \E d \in Collections : CachedProperty(d)
    \/ ReturnProperty

SpecTraversal == InitTraversal /\ [][NextTraversal]_vars

(***************************************************************************)
(* most_specific_dad and breadcrumbs.                                      *)
(***************************************************************************)

\* the orders in which the store may return the rows of a query that has no
\* ORDER BY: every enumeration of the set
StoreOrders(S) ==
    {q \in [1 .. Cardinality(S) -> S] :
        \A i, j \in 1 .. Cardinality(S) : q[i] = q[j] => i = j}

\* query(Collection).join(Collection.sons).filter(id_son == self.id): the
\* collections that are the dad of a row whose son is self
QueryDads(self) == {c \in Collections :
                      \E row \in edges : row.id_dad = c /\ row.id_son = self}

\* the sort key of most_specific_dad: lambda c: c.nbrecs
SortKey(c) == nbrecs[c]

\* x placed in a sorted list before the first element whose key is not
\* smaller: x stood before them in the input
RECURSIVE InsertSorted(_, _)
InsertSorted(x, s) ==
    IF s = <<>> THEN <<x>>
    ELSE IF SortKey(Head(s)) >= SortKey(x) THEN <<x>> \o s
    ELSE <<Head(s)>> \o InsertSorted(x, Tail(s))

\* Python's sorted(all, key=...): ascending by key, and stable
RECURSIVE sorted(_)
sorted(all) ==
    IF all = <<>> THEN <<>> ELSE InsertSorted(Head(all), sorted(Tail(all)))

\* a slip: the last element of the sorted list, results[-1]
most_specific_dad_Last(self, all) ==
    LET results == sorted(all) IN
    IF Len(results) # 0 THEN results[Len(results)] ELSE None

\* a slip: a collection without parents is given the root as its dad
most_specific_dad_RootDefault(self, all) ==
    LET results == sorted(all) IN
    IF Len(results) # 0 THEN results[1] ELSE 1

\* Collection.most_specific_dad, for the list the query's .all() returned
most_specific_dad(self, all) ==
    LET results == sorted(all) IN
    IF Len(results) # 0 THEN results[1] ELSE None

\* the crumb of a collection: builder(self) when a builder is given, and
\* dict(text=self.name_ln, url=url_for(..., name=self.name)) otherwise
Crumb(self, builder) ==
    IF builder THEN <<"builder", self>>
    ELSE [text |-> <<"name_ln", self>>, url |-> <<"url_for", self>>]

\* a slip: the crumb is put in front, breadcrumbs.insert(0, crumb)
AppendCrumb_Prepend(breadcrumbs, crumb) == <<crumb>> \o breadcrumbs

\* breadcrumbs.append(crumb)
AppendCrumb(breadcrumbs, crumb) == Append(breadcrumbs, crumb)

\* a call of breadcrumbs: "breadcrumbs = []"
CrumbFrame(self, builder) ==
    [fn |-> "breadcrumbs", self |-> self, builder |-> builder,
     output |-> <<>>]

\* a read of collection.most_specific_dad from outside; neither this
\* property nor breadcrumbs keeps any state, so one read per behaviour shows
\* all there is
MostSpecificDad(self) ==
    /\ stack = <<>>
    /\ result = NoResult
    /\ \E all \in StoreOrders(QueryDads(self)) :
          result' = [fn |-> "most_specific_dad", self |-> self, arg |-> all,
                     outcome |-> "ok", value |-> most_specific_dad(self, all)]
    /\ UNCHANGED <<edges, nbrecs, cache, stack, ncalls>>
    /\ UNCHANGED notHier

\* a call of collection.breadcrumbs(builder=...) from outside
StartBreadcrumbs(self, builder) ==
    /\ stack = <<>>
    /\ result = NoResult
    /\ stack' = <<CrumbFrame(self, builder)>>
    /\ result' = NoResult
    /\ UNCHANGED <<edges, nbrecs, cache, ncalls>>
    /\ UNCHANGED notHier

\* the test is true and the property is read a second time for the
\* recursive call; each read runs the query afresh
BreadcrumbsCall ==
    /\ stack # <<>>
    /\ Top.fn = "breadcrumbs"
    /\ Len(stack) < RecursionLimit
    /\ \E all \in StoreOrders(QueryDads(Top.self)) :
          most_specific_dad(Top.self, all) # None
    /\ \E all \in StoreOrders(QueryDads(Top.self)) :
          stack' = Append(stack,
                          CrumbFrame(most_specific_dad(Top.self, all),
                                     Top.builder))
    /\ UNCHANGED <<edges, nbrecs, cache, result, ncalls>>
    /\ UNCHANGED notHier

\* the recursive call does not fit on the interpreter's stack
BreadcrumbsOverflow ==
    /\ stack # <<>>
    /\ Top.fn = "breadcrumbs"
    /\ Len(stack) >= RecursionLimit
    /\ \E all \in StoreOrders(QueryDads(Top.self)) :
          most_specific_dad(Top.self, all) # None
    /\ stack' = <<>>
    /\ result' = [fn |-> "breadcrumbs", self |-> stack[1].self,
                  arg |-> Top.builder, outcome |-> "RecursionError",
                  value |-> <<>>]
    /\ UNCHANGED <<edges, nbrecs, cache, ncalls>>
    /\ UNCHANGED notHier

\* what the calls on the stack return, innermost first: each appends the
\* crumb of its self to the list its callee returned (the innermost to the
\* empty list) and returns it
RECURSIVE ReturnThrough(_, _)
ReturnThrough(frames, breadcrumbs) ==
    IF frames = <<>> THEN breadcrumbs
    ELSE LET frame == frames[Len(frames)] IN
         ReturnThrough(SubSeq(frames, 1, Len(frames) - 1),
                       AppendCrumb(breadcrumbs,
                                   Crumb(frame.self, frame.builder)))

\* "self.most_specific_dad is not None" is false: no further call is made,
\* the crumb of self is appended and the list returned; the callers, which
\* have nothing left to do but append and return, do so in turn
BreadcrumbsReturn ==
    /\ stack # <<>>
    /\ Top.fn = "breadcrumbs"
    /\ \E all \in StoreOrders(QueryDads(Top.self)) :
          most_specific_dad(Top.self, all) = None
    /\ stack' = <<>>
    /\ result' = [fn |-> "breadcrumbs", self |-> stack[1].self,
                  arg |-> Top.builder, outcome |-> "ok",
                  value |-> ReturnThrough(stack, Top.output)]
    /\ UNCHANGED <<edges, nbrecs, cache, ncalls>>
    /\ UNCHANGED notHier

\* the query of most_specific_dad does not read the type of a row
InitCrumbs ==
    /\ edges \in EdgeStoresOfType("r")
    /\ nbrecs \in [Collections -> 0 .. MaxRecs]
    /\ cache = EmptyCache
    /\ stack = <<>>
    /\ result = NoResult
    /\ ncalls = 0
    /\ NameIdle /\ BoxIdle /\ FacetIdle

NextCrumbs ==
    \/ \E c \in Collections : MostSpecificDad(c)
    \/ \E c \in Collections, builder \in BOOLEAN : StartBreadcrumbs(c, builder)
    \/ BreadcrumbsCall
    \/ BreadcrumbsOverflow
    \/ BreadcrumbsReturn

SpecCrumbs == InitCrumbs /\ [][NextCrumbs]_vars

(***************************************************************************)
(* Collection.id, Collection.name and validate_name.                       *)
(***************************************************************************)

\* Collection.is_root: self.id == 1
is_root(o) == cid[o] = 1

\* '/' in name
HasSlash(name) == \E i \in DOMAIN name : name[i] = "/"

\* a slip: the test of the site name is left out
validate_name_NoSiteNameTest(o, name) ==
    IF HasSlash(name)
       THEN [outcome |-> "ValueError", warned |-> FALSE]
       ELSE [outcome |-> "ok", warned |-> is_root(o) /\ name # CFG_SITE_NAME]

\* a slip: the warning of the root is raised as an error
validate_name_RootRejected(o, name) ==
    IF HasSlash(name) \/ (name = CFG_SITE_NAME) # is_root(o)
       THEN [outcome |-> "ValueError", warned |-> FALSE]
       ELSE [outcome |-> "ok", warned |-> FALSE]

\* Collection.validate_name(self, key, name): whether it raises ValueError or
\* returns the name, and whether it warns
validate_name(o, name) ==
    IF HasSlash(name)
       THEN [outcome |-> "ValueError", warned |-> FALSE]
    ELSE IF ~is_root(o) /\ name = CFG_SITE_NAME
       THEN [outcome |-> "ValueError", warned |-> FALSE]
    ELSE [outcome |-> "ok", warned |-> is_root(o) /\ name # CFG_SITE_NAME]

\* collection.id = i: no validator is attached to id
SetId(o, i) ==
    /\ cid' = [cid EXCEPT ![o] = i]
    /\ result' = [fn |-> "id", self |-> None, arg |-> <<>>,
                  outcome |-> "ok", value |-> FALSE]
    /\ UNCHANGED cname
    /\ UNCHANGED <<hierVars, dbquery, boxes, facets, writers>>

\* collection.name = name: the validator runs first, and the attribute is
\* set to what it returns unless it raises
SetName(o, name) ==
    LET v == validate_name(o, name) IN
    /\ cname' = IF v.outcome = "ok" THEN [cname EXCEPT ![o] = name] ELSE cname
    /\ result' = [fn |-> "name", self |-> None, arg |-> <<>>,
                  outcome |-> v.outcome, value |-> v.warned]
    /\ UNCHANGED cid
    /\ UNCHANGED <<hierVars, dbquery, boxes, facets, writers>>

\* instances just constructed: no id and no name yet
InitName ==
    /\ NameIdle
    /\ result = NoResult
    /\ HierIdle /\ BoxIdle /\ FacetIdle

NextName ==
    \/ \E o \in Objs, i \in Ids : SetId(o, i)
    \/ \E o \in Objs, name \in Names : SetName(o, name)

SpecName == InitName /\ [][NextName]_vars


(***************************************************************************)
(* Collectionboxname and Collection.get_collectionbox_name.                *)
(***************************************************************************)

\* the language codes: the site's language and another one
Languages == {"en", "fr"}

\* cfg['CFG_SITE_LANG']
CFG_SITE_LANG == "en"

\* the box types given to get_collectionbox_name: the three keys of TYPES
\* and one that is no key
BoxTypeArgs == {"r", "v", "l", "x"}

\* the values of the custom labels
BoxValues == {<<"a">>, <<"b">>}

\* Collectionboxname.TYPES.get(box_type, '')
TYPES_get(box_type) ==
    CASE box_type = "v" -> "Focus on:"
      [] box_type = "r" -> "Narrow by collection:"
      [] box_type = "l" -> "Latest additions:"
      [] OTHER -> ""

\* gettext_set_language(ln)(msgid): the message in the language ln
gettext(ln, msgid) == <<ln, msgid>>

\* a row of collectionboxname
Collectionboxname(c, ln, type, value) ==
    [id_collection |-> c, ln |-> ln, type |-> type, value |-> value]

\* query(Collectionboxname).with_parent(self).filter(ln == ..., type == ...)
BoxQuery(self, ln, box_type) ==
    {row \in boxes : /\ row.id_collection = self
                     /\ row.ln = ln
                     /\ row.type = box_type}

\* "collectionboxname = None": no row
NoBox == [id_collection |-> None, ln |-> "", type |-> "", value |-> <<>>]

\* Query.one(): the only row, and an exception when there is none or more
\* than one
one(rows) ==
    IF Cardinality(rows) = 1
       THEN [raised |-> FALSE, row |-> CHOOSE row \in rows : TRUE]
       ELSE [raised |-> TRUE, row |-> NoBox]

\* Collection.get_collectionbox_name(ln, box_type), ln already resolved:
\* the query in the except branch is the first query again
get_collectionbox_name(self, ln, box_type) ==
    LET first == one(BoxQuery(self, ln, box_type))
        second == one(BoxQuery(self, ln, box_type))
        collectionboxname ==
            IF ~first.raised THEN first.row
            ELSE IF ~second.raised THEN second.row
            ELSE NoBox
    IN  IF collectionboxname = NoBox
           THEN gettext(ln, TYPES_get(box_type))
           ELSE collectionboxname.value

\* collection.boxes[(ln, type)] = value: the association proxy over the
\* mapping keyed by ln_type replaces the label of the key or creates it
SetBox(c, ln, type, value) ==
    LET kept == {row \in boxes : ~(/\ row.id_collection = c
                                   /\ row.ln = ln
                                   /\ row.type = type)}
    IN  /\ Cardinality(kept) < MaxBoxes
        /\ boxes' = kept \cup {Collectionboxname(c, ln, type, value)}
        /\ result' = NoResult
        /\ UNCHANGED <<hierVars, cid, cname, dbquery, facets, writers>>

\* collection.get_collectionbox_name(ln, box_type) in a request whose
\* language g.ln is g_ln; ln is None when the argument is left out
GetCollectionboxName(c, ln, g_ln, box_type) ==
    LET lang == IF ln = "None" THEN g_ln ELSE ln IN
    /\ result' = [fn |-> "get_collectionbox_name", self |-> c,
                  arg |-> <<lang, box_type>>, outcome |-> "ok",
                  value |-> get_collectionbox_name(c, lang, box_type)]
    /\ UNCHANGED <<hierVars, cid, cname, dbquery, boxes, facets, writers>>

InitBox ==
    /\ BoxIdle
    /\ result = NoResult
    /\ HierIdle /\ NameIdle /\ FacetIdle

NextBox ==
    \/ \E c \in Collections, ln \in Languages, type \in {"r", "v", "l"},
          value \in BoxValues : SetBox(c, ln, type, value)
    \/ \E c \in Collections, ln \in Languages \cup {"None"},
          g_ln \in Languages, box_type \in BoxTypeArgs :
          GetCollectionboxName(c, ln, g_ln, box_type)

SpecBox == InitBox /\ [][NextBox]_vars

(***************************************************************************)
(* FacetCollection: adding a facet after the is_place_taken pre-check.     *)
(***************************************************************************)
Writers == 1 .. NumWriters

FacetNames == {"author", "year"}

\* a row of facet_collection; id is the primary key, and the table declares
\* no other constraint
FacetCollection(id, id_collection, order, facet_name) ==
    [id |-> id, id_collection |-> id_collection, order |-> order,
     facet_name |-> facet_name]

\* FacetCollection.is_place_taken(id_collection, order)
is_place_taken(id_collection, order) ==
    Cardinality({row \in facets : /\ row.id_collection = id_collection
                                  /\ row.order = order}) # 0

\* a session runs the pre-check for the facet it is about to add
FacetCheck(w, id_collection, order, facet_name) ==
    /\ writers[w].pc = "start"
    /\ writers' = [writers EXCEPT ![w] =
                      [pc |-> "checked", id_collection |-> id_collection,
                       order |-> order, facet_name |-> facet_name,
                       taken |-> is_place_taken(id_collection, order)]]
    /\ UNCHANGED <<hierVars, result, cid, cname, dbquery, boxes, facets>>

\* the pre-check returned False: the session saves the row, which gets the
\* next id; nothing in the table's declaration makes the save fail
FacetInsert(w) ==
    /\ writers[w].pc = "checked"
    /\ ~writers[w].taken
    /\ facets' = facets \cup
                   {FacetCollection(Cardinality(facets) + 1,
                                    writers[w].id_collection,
                                    writers[w].order,
                                    writers[w].facet_name)}
    /\ writers' = [writers EXCEPT ![w] = [pc |-> "done"]]
    /\ UNCHANGED <<hierVars, result, cid, cname, dbquery, boxes>>

\* the pre-check returned True: the session adds nothing
FacetRefuse(w) ==
    /\ writers[w].pc = "checked"
    /\ writers[w].taken
    /\ writers' = [writers EXCEPT ![w] = [pc |-> "done"]]
    /\ UNCHANGED <<hierVars, result, cid, cname, dbquery, boxes, facets>>

InitFacet ==
    /\ FacetIdle
    /\ result = NoResult
    /\ HierIdle /\ NameIdle /\ BoxIdle

NextFacet ==
    \/ \E w \in Writers, c \in Collections, order \in 0 .. MaxOrder,
          facet_name \in FacetNames : FacetCheck(w, c, order, facet_name)
    \/ \E w \in Writers : FacetInsert(w)
    \/ \E w \in Writers : FacetRefuse(w)

SpecFacet == InitFacet /\ [][NextFacet]_vars

(***************************************************************************)
(* The collection_collection table: inserting and deleting rows.           *)
(***************************************************************************)

\* a slip: type made part of the primary key
PrimaryKeyTaken_WithType(row) ==
    \E other \in edges : /\ EdgeKey(other) = EdgeKey(row)
                         /\ other.type = row.type

\* the table holds a row with the primary key (id_dad, id_son) of row
PrimaryKeyTaken(row) == \E other \in edges : EdgeKey(other) = EdgeKey(row)

\* the scores given to inserted rows
Scores == {0, 1}

\* session.add(CollectionCollection(...)) and commit: the insert fails with
\* IntegrityError when the primary key is taken
AddEdge(dad, son, type, score) ==
    LET row == CollectionCollection(dad, son, type, score) IN
    /\ PrimaryKeyTaken(row) \/ Cardinality(edges) < MaxRows
    /\ IF PrimaryKeyTaken(row)
          THEN /\ edges' = edges
               /\ result' = [fn |-> "add", self |-> None, arg |-> <<type>>,
                             outcome |-> "IntegrityError", value |-> <<>>]
          ELSE /\ edges' = edges \cup {row}
               /\ result' = [fn |-> "add", self |-> None, arg |-> <<type>>,
                             outcome |-> "ok", value |-> <<>>]
    /\ UNCHANGED <<nbrecs, cache, stack, ncalls>>
    /\ UNCHANGED notHier

\* session.delete(row) and commit
RemoveEdge(row) ==
    /\ row \in edges
    /\ edges' = edges \ {row}
    /\ result' = [fn |-> "delete", self |-> None, arg |-> <<>>,
                  outcome |-> "ok", value |-> <<>>]
    /\ UNCHANGED <<nbrecs, cache, stack, ncalls>>
    /\ UNCHANGED notHier

InitEdge ==
    /\ HierIdle
    /\ result = NoResult
    /\ NameIdle /\ BoxIdle /\ FacetIdle

NextEdge ==
    \/ \E p \in Pairs, type \in EdgeTypes, score \in Scores :
          AddEdge(p[1], p[2], type, score)
    \/ \E row \in edges : RemoveEdge(row)

SpecEdge == InitEdge /\ [][NextEdge]_vars

(***************************************************************************)
(* The relationships _collection_children, _collection_children_r,         *)
(* _collection_children_v and collection_parents, and the proxies          *)
(* collection_children*.                                                   *)
(***************************************************************************)

\* the relationships of Collection that load rows of collection_collection
Relationships == {"collection_children", "collection_children_r",
                  "collection_children_v", "collection_parents"}

\* the rows a relationship's primaryjoin selects for the instance self
PrimaryJoin(rel, self) ==
    IF rel = "collection_children"
       THEN {row \in edges : row.id_dad = self}
    ELSE IF rel = "collection_children_r"
       THEN {row \in edges : row.id_dad = self /\ row.type = "r"}
    ELSE IF rel = "collection_children_v"
       THEN {row \in edges : row.id_dad = self /\ row.type = "v"}
    ELSE {row \in edges : row.id_son = self}

\* row placed in a list ordered by score, before the first row whose score
\* is not smaller
RECURSIVE InsertByScore(_, _)
InsertByScore(row, s) ==
    IF s = <<>> THEN <<row>>
    ELSE IF Head(s).score >= row.score THEN <<row>> \o s
    ELSE <<Head(s)>> \o InsertByScore(row, Tail(s))

\* a slip: the ORDER BY is left out, the rows come as the store holds them
order_by_Unordered(q) == q

\* order_by=db.asc(CollectionCollection.score), applied to the selected rows
\* in the order q the store holds them: rows of equal score keep that order
RECURSIVE order_by(_)
order_by(q) ==
    IF q = <<>> THEN <<>> ELSE InsertByScore(Head(q), order_by(Tail(q)))

\* association_proxy(relationship, 'son'): the son of each row, in the
\* relationship's order; collection_parents has no proxy and is the rows
association_proxy(rel, rows) ==
    IF rel = "collection_parents"
       THEN rows
       ELSE [i \in 1 .. Len(rows) |-> rows[i].id_son]

\* a fresh instance loads one of the relationships; arg is the list of rows
\* loaded, value what the attribute read returns
ReadRelationship(rel, self) ==
    /\ result = NoResult
    /\ \E q \in StoreOrders(PrimaryJoin(rel, self)) :
          LET rows == order_by(q) IN
          result' = [fn |-> rel, self |-> self, arg |-> rows,
                     outcome |-> "ok",
                     value |-> association_proxy(rel, rows)]
    /\ UNCHANGED hierVars
    /\ UNCHANGED notHier

\* a store with at most MaxRows rows, one row per (id_dad, id_son), of any
\* type and score
InitRelationship ==
    /\ \E P \in SUBSET Pairs :
          /\ Cardinality(P) <= MaxRows
          /\ \E f \in [P -> EdgeTypes \X Scores] :
                edges = {CollectionCollection(p[1], p[2], f[p][1], f[p][2]) :
                           p \in P}
    /\ nbrecs = [c \in Collections |-> 0]
    /\ cache = EmptyCache
    /\ stack = <<>>
    /\ result = NoResult
    /\ ncalls = 0
    /\ NameIdle /\ BoxIdle /\ FacetIdle

NextRelationship ==
    \E rel \in Relationships, c \in Collections : ReadRelationship(rel, c)

SpecRelationship == InitRelationship /\ [][NextRelationship]_vars

(***************************************************************************)
(* Reads of the cached properties interleaved with changes of the rows:    *)
(* the instances live on in the session while rows are added and deleted.  *)
(***************************************************************************)

\* a regular row is added between two reads; nothing touches the values
\* the instances hold in their __dict__
AddEdgeBetweenReads(dad, son) ==
    /\ stack = <<>>
    /\ AddEdge(dad, son, "r", 0)

\* a row is deleted between two reads
RemoveEdgeBetweenReads(row) ==
    /\ stack = <<>>
    /\ RemoveEdge(row)

NextSession ==
    \/ NextTraversal
    \/ \E p \in Pairs : AddEdgeBetweenReads(p[1], p[2])
    \/ \E row \in edges : RemoveEdgeBetweenReads(row)

SpecSession == InitEdge /\ [][NextSession]_vars

(***************************************************************************)
(* Collection.dbquery and Collection.type.                                 *)
(***************************************************************************)

\* str.lower() of one character
LowerChar(ch) == IF ch = "A" THEN "a" ELSE ch

\* self.dbquery.lower()
lower(string) == [i \in 1 .. Len(string) |-> LowerChar(string[i])]

\* the characters \d matches
Digits == {"1"}

\* the number of characters \d+ consumes at the start of the string: the
\* longest run of digits
RECURSIVE DigitRun(_)
DigitRun(string) ==
    IF string # <<>> /\ Head(string) \in Digits
       THEN 1 + DigitRun(Tail(string))
       ELSE 0

\* a slip: the pattern written as \d*:.* , digits optional
p_match_DigitsOptional(string) ==
    LET n == DigitRun(string) IN
    /\ Len(string) > n
    /\ string[n + 1] = ":"

\* re.compile("\d+:.*").match(string) is not None: at the start of the
\* string one or more digits, then a colon; .* matches whatever follows
p_match(string) ==
    LET n == DigitRun(string) IN
    /\ n >= 1
    /\ Len(string) > n
    /\ string[n + 1] = ":"

\* Collection.type
Collection_type(o) ==
    IF dbquery[o] # NoQuery /\ p_match(lower(dbquery[o]))
       THEN "r"
       ELSE "v"

\* collection.dbquery = query (a string or None)
SetDbquery(o, query) ==
    /\ dbquery' = [dbquery EXCEPT ![o] = query]
    /\ result' = NoResult
    /\ UNCHANGED <<hierVars, cid, cname, boxes, facets, writers>>

\* collection.type is read
ReadType(o) ==
    /\ result' = [fn |-> "type", self |-> None, arg |-> <<o>>,
                  outcome |-> "ok", value |-> Collection_type(o)]
    /\ UNCHANGED <<hierVars, cid, cname, dbquery, boxes, facets, writers>>

InitType ==
    /\ NameIdle
    /\ result = NoResult
    /\ HierIdle /\ BoxIdle /\ FacetIdle

NextType ==
    \/ \E o \in Objs, query \in Queries \cup {NoQuery} : SetDbquery(o, query)
    \/ \E o \in Objs : ReadType(o)

SpecType == InitType /\ [][NextType]_vars

(***************************************************************************)
(* The hierarchy as a relation, independently of the traversal code.       *)
(***************************************************************************)

\* the collections from which a collection of S is reachable over zero or
\* more dad -> son rows of any type
RECURSIVE UpClosure(_)
UpClosure(S) ==
    LET T == S \cup {row.id_dad : row \in {r \in edges : r.id_son \in S}} IN
    IF T = S THEN S ELSE UpClosure(T)

\* the collections reachable from a collection of S over zero or more
\* dad -> son rows of any type
RECURSIVE DownClosure(_)
DownClosure(S) ==
    LET T == S \cup {row.id_son : row \in {r \in edges : r.id_dad \in S}} IN
    IF T = S THEN S ELSE DownClosure(T)

\* no collection is reachable from itself over one or more rows
Acyclic == \A c \in Collections : c \notin UpClosure(Dads(c))

\* rows a -> b and b -> a between two different collections
TwoCycle(a, b) ==
    /\ a # b
    /\ \E row \in edges : row.id_dad = a /\ row.id_son = b
    /\ \E row \in edges : row.id_dad = b /\ row.id_son = a

\* the parents of a collection that have the fewest records
MinDads(c) ==
    {p \in QueryDads(c) : \A q \in QueryDads(c) : nbrecs[p] <= nbrecs[q]}

\* the collection a crumb was made for
CrumbCollection(crumb, builder) ==
    IF builder THEN crumb[2] ELSE crumb.url[2]

(***************************************************************************)
(* C1.  On a store that holds the cycle a -> b -> a, every completed read  *)
(* of ancestors, ancestors_ids or descendants_ids of a ends in the cycle   *)
(* error (the bare raise), not in the exhaustion of the call stack.        *)
(***************************************************************************)
C1_CycleRaisesCycleError ==
    \A a, b \in Collections :
        (/\ TwoCycle(a, b)
         /\ result.fn \in Traversals
         /\ result.self = a)
        => result.outcome = "raise"

(***************************************************************************)
(* C2.  On an acyclic store, a completed read of ancestors or              *)
(* ancestors_ids of c succeeds and its value is exactly the set of         *)
(* collections from which c is reachable over zero or more rows of any     *)
(* type (c itself included).                                               *)
(***************************************************************************)
C2_AncestorsIsUpClosure ==
    (result.fn \in {"ancestors", "ancestors_ids"} /\ Acyclic)
    => /\ result.outcome = "ok"
       /\ result.value = UpClosure({result.self})

\* a diamond: collection 3 has the two dads 1 and 2, and 1 is also a dad of
\* 2, so 1 is reached over two paths
C2_Witness ==
    /\ Acyclic
    /\ result.fn = "ancestors_ids"
    /\ result.self = 3
    /\ Dads(3) = {1, 2}
    /\ Dads(2) = {1}
    /\ result.outcome = "ok"
    /\ result.value = {1, 2, 3}

(***************************************************************************)
(* C3 as claimed.  most_specific_dad of a collection with a parent is a    *)
(* parent with the fewest records, and among several such parents the one  *)
(* with the smallest id, whatever the order the store returns them in.     *)
(***************************************************************************)
C3_TieBrokenBySmallestId ==
    (result.fn = "most_specific_dad" /\ QueryDads(result.self) # {})
    => /\ result.value \in MinDads(result.self)
       /\ \A p \in MinDads(result.self) : result.value <= p

(***************************************************************************)
(* C3 as amended.  most_specific_dad of a collection with a parent is a    *)
(* parent with the fewest records, and among several such parents the one  *)
(* the store returned first.                                               *)
(***************************************************************************)
C3_TieBrokenByStoreOrder ==
    (result.fn = "most_specific_dad" /\ QueryDads(result.self) # {})
    => /\ result.value \in MinDads(result.self)
       /\ \E i \in 1 .. Len(result.arg) :
             /\ result.arg[i] = result.value
             /\ \A j \in 1 .. (i - 1) : result.arg[j] \notin MinDads(result.self)

\* two parents with the same record count, returned with the larger id first
C3_Witness ==
    /\ result.fn = "most_specific_dad"
    /\ result.self = 3
    /\ result.arg = <<2, 1>>
    /\ nbrecs[1] = nbrecs[2]
    /\ result.value = 2

(***************************************************************************)
(* C4 as claimed.  In every store, most_specific_dad of the root (id 1)    *)
(* is None and breadcrumbs of the root is the root's crumb alone.          *)
(***************************************************************************)
C4_RootHasNoDad ==
    /\ (result.fn = "most_specific_dad" /\ result.self = 1)
       => result.value = None
    /\ (result.fn = "breadcrumbs" /\ result.self = 1)
       => /\ result.outcome = "ok"
          /\ result.value = <<Crumb(1, result.arg)>>

(***************************************************************************)
(* C4 as amended.  In every store in which no row has the root as its son, *)
(* most_specific_dad of the root is None and breadcrumbs of the root is    *)
(* the root's crumb alone; in a store in which a row has the root as its   *)
(* son, most_specific_dad of the root is the dad of such a row.            *)
(***************************************************************************)
C4_UnparentedRootHasNoDad ==
    /\ (result.fn = "most_specific_dad" /\ result.self = 1)
       => IF QueryDads(1) = {}
             THEN result.value = None
             ELSE result.value \in QueryDads(1)
    /\ (result.fn = "breadcrumbs" /\ result.self = 1 /\ QueryDads(1) = {})
       => /\ result.outcome = "ok"
          /\ result.value = <<Crumb(1, result.arg)>>

\* breadcrumbs of a root that has sons and no dad
C4_Witness ==
    /\ result.fn = "breadcrumbs"
    /\ result.self = 1
    /\ QueryDads(1) = {}
    /\ Sons(1) # {}
    /\ result.outcome = "ok"
    /\ Len(result.value) = 1

(***************************************************************************)
(* C5.  On an acyclic store, breadcrumbs of c succeeds with the crumbs of  *)
(* a most-specific-parent chain from its top down to c: the last crumb is  *)
(* the crumb of c, each earlier crumb is the crumb of a parent with the    *)
(* fewest records of the collection of the next crumb, the collection of   *)
(* the first crumb has no parent, and with a builder every crumb is        *)
(* builder(collection).                                                    *)
(***************************************************************************)
C5_BreadcrumbsIsDadChain ==
    (result.fn = "breadcrumbs" /\ Acyclic)
    => /\ result.outcome = "ok"
       /\ LET crumbs == result.value
              n == Len(crumbs)
              coll(i) == CrumbCollection(crumbs[i], result.arg)
          IN  /\ n >= 1
              /\ \A i \in 1 .. n : coll(i) \in Collections
              /\ \A i \in 1 .. n : crumbs[i] = Crumb(coll(i), result.arg)
              /\ coll(n) = result.self
              /\ \A i \in 1 .. (n - 1) : coll(i) \in MinDads(coll(i + 1))
              /\ QueryDads(coll(1)) = {}

\* Root -> Physics -> Quantum: the crumbs of 3 are those of 1, 2, 3 in order
C5_Witness ==
    /\ {EdgeKey(row) : row \in edges} = {<<1, 2>>, <<2, 3>>}
    /\ result.fn = "breadcrumbs"
    /\ result.self = 3
    /\ result.arg = FALSE
    /\ result.outcome = "ok"
    /\ result.value = <<Crumb(1, FALSE), Crumb(2, FALSE), Crumb(3, FALSE)>>

(***************************************************************************)
(* C6 as claimed.  After any accepted writes, every collection that has an *)
(* id and a name has the site name if and only if its id is 1.             *)
(***************************************************************************)
C6_SiteNameIffRoot ==
    \A o \in Objs :
        (cid[o] # None /\ cname[o] # NoName)
        => (cname[o] = CFG_SITE_NAME <=> cid[o] = 1)

(***************************************************************************)
(* C6 as amended.  Every accepted write of a name stores the site name     *)
(* only in a collection whose id is 1 when the name is written.            *)
(***************************************************************************)
C6_SiteNameWrittenOnlyToRoot ==
    [][\A o \in Objs :
          (cname'[o] # cname[o] /\ cname'[o] = CFG_SITE_NAME) => cid[o] = 1]_vars

\* the root has been given the site name
C6_Witness ==
    \E o \in Objs :
        /\ cid[o] = 1
        /\ cname[o] = CFG_SITE_NAME
        /\ result.fn = "name"
        /\ result.outcome = "ok"

(***************************************************************************)
(* C7.  Writing a name that contains '/', or the site name to a collection *)
(* whose id is not 1, raises ValueError and leaves every stored name as it *)
(* was; any other name is stored, with a warning exactly when the id is 1  *)
(* and the name is not the site name.                                      *)
(***************************************************************************)
C7_NameWriteRejectedOrStored ==
    [][\A o \in Objs, name \in Names :
          SetName(o, name) =>
              IF HasSlash(name) \/ (cid[o] # 1 /\ name = CFG_SITE_NAME)
                 THEN /\ result'.outcome = "ValueError"
                      /\ cname' = cname
                 ELSE /\ result'.outcome = "ok"
                      /\ cname'[o] = name
                      /\ result'.value = (cid[o] = 1 /\ name # CFG_SITE_NAME)]_vars

\* the root carries a name other than the site name, stored with a warning
C7_Witness ==
    \E o \in Objs :
        /\ cid[o] = 1
        /\ cname[o] \notin {NoName, CFG_SITE_NAME}
        /\ result.fn = "name"
        /\ result.outcome = "ok"
        /\ result.value = TRUE

(***************************************************************************)
(* C8.  get_collectionbox_name returns the value of the label of           *)
(* (collection, ln, box_type) when it exists, otherwise the value of the   *)
(* label of (collection, site language, box_type) when that exists, and    *)
(* the built-in default of the box type only when both are missing.        *)
(***************************************************************************)
C8_TwoStageFallback ==
    result.fn = "get_collectionbox_name"
    => LET c == result.self
           ln == result.arg[1]
           box_type == result.arg[2]
           own == BoxQuery(c, ln, box_type)
           site == BoxQuery(c, CFG_SITE_LANG, box_type)
       IN  /\ result.outcome = "ok"
           /\ own # {} => \E row \in own : result.value = row.value
           /\ (own = {} /\ site # {})
              => \E row \in site : result.value = row.value
           /\ (own = {} /\ site = {})
              => result.value = gettext(ln, TYPES_get(box_type))

(***************************************************************************)
(* C9.  Whatever the interleaving of the sessions, each of which inserts   *)
(* only after is_place_taken returned False, no two rows of                *)
(* facet_collection have the same (id_collection, order).                  *)
(***************************************************************************)
C9_PlaceUnique ==
    \A r1, r2 \in facets :
        (r1.id_collection = r2.id_collection /\ r1.order = r2.order)
        => r1 = r2

(***************************************************************************)
(* C10 as claimed.  An insert of a row whose (id_dad, id_son, type) is not *)
(* in the table is accepted, also when the table holds a row of the other  *)
(* type for the same (id_dad, id_son).                                     *)
(***************************************************************************)
C10_UniquePerDadSonType ==
    [][\A p \in Pairs, type \in EdgeTypes, score \in Scores :
          (/\ AddEdge(p[1], p[2], type, score)
           /\ ~\E row \in edges : EdgeKey(row) = p /\ row.type = type)
          => CollectionCollection(p[1], p[2], type, score) \in edges']_vars

(***************************************************************************)
(* C10 as amended.  After any inserts and deletes the table holds at most  *)
(* one row per (id_dad, id_son), whatever the types.                       *)
(***************************************************************************)
C10_UniquePerDadSon ==
    \A r1, r2 \in edges : EdgeKey(r1) = EdgeKey(r2) => r1 = r2

\* an insert has been refused although every row of the table is of the
\* other type
C10_Witness ==
    /\ result.fn = "add"
    /\ result.outcome = "IntegrityError"
    /\ edges # {}
    /\ \A row \in edges : row.type # result.arg[1]

(***************************************************************************)
(* C11.  A read of collection_children_r / collection_children_v of c      *)
(* returns, each once, exactly the sons of the rows with id_dad = c and    *)
(* that type, and collection_children the sons of all rows with id_dad =   *)
(* c, in ascending score of the rows; collection_parents of c holds        *)
(* exactly the rows with id_son = c, so every row (dad, son, type) has its *)
(* son among the children of dad for its type and for all types, and its   *)
(* dad among the parents of son.                                           *)
(***************************************************************************)
C11_ChildrenAreSonsByScore ==
    result.fn \in Relationships =>
        LET c    == result.self
            rows == result.arg
            n    == Len(rows)
            want == {row \in edges :
                       \/ result.fn = "collection_children"
                            /\ row.id_dad = c
                       \/ result.fn = "collection_children_r"
                            /\ row.id_dad = c /\ row.type = "r"
                       \/ result.fn = "collection_children_v"
                            /\ row.id_dad = c /\ row.type = "v"
                       \/ result.fn = "collection_parents"
                            /\ row.id_son = c}
        IN  /\ n = Cardinality(want)
            /\ {rows[i] : i \in 1 .. n} = want
            /\ \A i, j \in 1 .. n : i < j => rows[i].score <= rows[j].score
            /\ Len(result.value) = n
            /\ result.fn # "collection_parents"
                  => \A i \in 1 .. n : result.value[i] = rows[i].id_son
            /\ result.fn = "collection_parents"
                  => {result.value[i].id_dad : i \in 1 .. n} = Dads(c)

\* a dad with a virtual son of score 0 and a regular son of score 1: the
\* unfiltered children are the virtual son, then the regular son
C11_Witness ==
    /\ result.fn = "collection_children"
    /\ Len(result.arg) = 2
    /\ result.arg[1].type = "v" /\ result.arg[1].score = 0
    /\ result.arg[2].type = "r" /\ result.arg[2].score = 1
    /\ result.value = <<result.arg[1].id_son, result.arg[2].id_son>>

(***************************************************************************)
(* C12.  Whatever rows were added or deleted between the reads, a read of  *)
(* ancestors, ancestors_ids or descendants_ids that returns a value        *)
(* returns the closure of the rows the table holds when the read is made.  *)
(***************************************************************************)
C12_ReadReturnsCurrentClosure ==
    (result.fn \in Traversals /\ result.outcome = "ok")
    => result.value = IF result.fn = "descendants_ids"
                         THEN DownClosure({result.self})
                         ELSE UpClosure({result.self})

(***************************************************************************)
(* C13.  On every store, cyclic ones included, a call of breadcrumbs ends  *)
(* by returning a list of crumbs or by raising a cycle error: it never     *)
(* recurses until the interpreter's call stack is exhausted.               *)
(***************************************************************************)
C13_BreadcrumbsEndsWithoutOverflow ==
    result.fn = "breadcrumbs" => result.outcome \in {"ok", "raise"}

\* the query starts with one or more digits followed by a colon
DigitsThenColon(query) ==
    \E n \in 1 .. (Len(query) - 1) :
        /\ \A i \in 1 .. n : query[i] \in Digits
        /\ query[n + 1] = ":"

(***************************************************************************)
(* C14 as claimed.  type is 'v' when the query is None or starts with one  *)
(* or more digits followed by ':', and 'r' for every other query.          *)
(***************************************************************************)
C14_VirtualIffNullOrDigitPrefix ==
    result.fn = "type" =>
        LET query == dbquery[result.arg[1]] IN
        result.value = IF query = NoQuery \/ DigitsThenColon(query)
                          THEN "v" ELSE "r"

(***************************************************************************)
(* C14 as amended.  type is 'r' when the query is not None and starts with *)
(* one or more digits followed by ':', and 'v' for None and every other    *)
(* query; it depends on the query alone.                                   *)
(***************************************************************************)
C14_RegularIffDigitPrefix ==
    result.fn = "type" =>
        LET query == dbquery[result.arg[1]] IN
        result.value = IF query # NoQuery /\ DigitsThenColon(query)
                          THEN "r" ELSE "v"

\* a query of a digit and a colon is classified 'r'
C14_Witness ==
    /\ result.fn = "type"
    /\ dbquery[result.arg[1]] = <<"1", ":">>
    /\ result.value = "r"

=============================================================================
